---- MODULE Spec2Model ----
(***************************************************************************)
(* brandsnap-api: POST /api/generate (src/src/index.ts), the brand         *)
(* analyzer (src/src/services/gemini.ts) and the image generators          *)
(* (src/src/services/imagen.ts).                                           *)
(*                                                                         *)
(* One request is followed from its arrival to its response.  Every await  *)
(* of the handler is a state: the text-model call of analyzeBrand, the     *)
(* stagger wait before a generator, an image-model call in flight and the  *)
(* backoff wait after a retryable failure.  An action is the code that     *)
(* runs between two awaits.                                                *)
(*                                                                         *)
(* Spec     the orchestrator handling one request.                         *)
(* SpecGen  one direct invocation of a generator entry point (banner,      *)
(*          logo or icon); generateLogoWithImagen is exported but the      *)
(*          orchestrator never calls it.                                   *)
(***************************************************************************)
EXTENDS Integers, Sequences, FiniteSets, TLC

\* Longest platforms list of a request.
MaxPlatforms == 2

\* imagen.ts: const maxRetries = 3
maxRetries == 3

\* index.ts: const STAGGER_MS = 500
STAGGER_MS == 500

\* imagen.ts: Math.pow(2, attempt + 1) * 2000
BackoffUnitMs == 2000

\* types: Platform
Platform == {"twitter", "linkedin", "youtube", "facebook", "og"}

\* The platform tags a request's list is drawn from (GenerationRequest.platforms
\* admits Platform | 'favicon' | 'logo').
RequestTags == {"twitter", "linkedin", "favicon", "logo"}

\* types: PLATFORM_DIMENSIONS
PLATFORM_DIMENSIONS ==
  [p \in Platform \cup {"favicon", "logo"} |->
     CASE p = "twitter"  -> [width |-> 1500, height |-> 500]
       [] p = "linkedin" -> [width |-> 1584, height |-> 396]
       [] p = "youtube"  -> [width |-> 2560, height |-> 1440]
       [] p = "facebook" -> [width |-> 820,  height |-> 312]
       [] p = "og"       -> [width |-> 1200, height |-> 630]
       [] p = "favicon"  -> [width |-> 512,  height |-> 512]
       [] p = "logo"     -> [width |-> 1024, height |-> 1024]]

\* types: Style
Style == {"blueprint", "brutalism", "isometric", "fluid", "collage", "explainer",
          "minimal", "gradient", "geometric", "retro"}

\* A style value outside the Style type (the handler casts, it does not check).
UnknownStyle == "vaporwave"

\* gemini.ts: STYLE_GUIDES (the heading line of each entry)
STYLE_GUIDES ==
  [s \in Style |->
     CASE s = "blueprint" -> "**STYLE: ORTHOGRAPHIC BLUEPRINT / SCHEMATIC**"
       [] s = "brutalism" -> "**STYLE: NEO-BRUTALISM / WEB AESTHETIC**"
       [] s = "isometric" -> "**STYLE: 3D ISOMETRIC RENDER**"
       [] s = "fluid"     -> "**STYLE: ETHEREAL FLUID / ABSTRACT 3D**"
       [] s = "collage"   -> "**STYLE: MIXED MEDIA DIGITAL COLLAGE**"
       [] s = "explainer" -> "**STYLE: FLAT VECTOR / GRAPHIC EXPLAINER**"
       [] s = "minimal"   -> "**STYLE: ULTRA-MINIMAL**"
       [] s = "gradient"  -> "**STYLE: AURORA GRADIENT**"
       [] s = "geometric" -> "**STYLE: GEOMETRIC PATTERNS**"
       [] s = "retro"     -> "**STYLE: RETRO VINTAGE 70s-80s**"]

\* imagen.ts: logoStyles
logoStyles ==
  [s \in Style |->
     CASE s = "blueprint" -> "Technical, precise logo with thin lines, dark navy background, cyan accents, engineering/architect feel"
       [] s = "brutalism" -> "Bold neo-brutalist logo, heavy black strokes, stark contrast, raw geometric letterforms, punk energy"
       [] s = "isometric" -> "Isometric 3D logo mark with clean lettering, soft shadows, playful modern tech aesthetic"
       [] s = "fluid"     -> "Ethereal glass-morphism logo, iridescent gradient mark, elegant thin typography, premium luxury feel"
       [] s = "collage"   -> "Mixed media textured logo, layered paper-cut mark, artistic handcraft quality, creative agency vibe"
       [] s = "explainer" -> "Clean flat vector logo, friendly sans-serif type, minimal symbol, approachable SaaS aesthetic"
       [] s = "minimal"   -> "Ultra-minimal logo, geometric monogram or wordmark, maximum whitespace, refined elegance"
       [] s = "gradient"  -> "Aurora gradient logo mark with clean modern type, smooth flowing colors, fintech/app aesthetic"
       [] s = "geometric" -> "Geometric pattern-based logo mark, interlocking shapes, mathematical precision, bold type"
       [] s = "retro"     -> "Vintage retro logo, warm 70s-80s palette, rounded badge style, nostalgic hand-lettered feel"]

\* imagen.ts: iconStyles
iconStyles ==
  [s \in Style |->
     CASE s = "blueprint" -> "Technical schematic icon, cyan lines on dark navy, circuit aesthetic"
       [] s = "brutalism" -> "Bold neo-brutalist icon, heavy black borders, neon accent, raw"
       [] s = "isometric" -> "Isometric 3D icon, soft shadows, claymorphism, playful tech"
       [] s = "fluid"     -> "Ethereal glass icon, iridescent gradients, flowing organic shape"
       [] s = "collage"   -> "Mixed media textured icon, paper-cut layers, artsy creative"
       [] s = "explainer" -> "Flat vector icon, clean minimal shapes, friendly SaaS aesthetic"
       [] s = "minimal"   -> "Ultra-minimal geometric icon, one shape, maximum whitespace"
       [] s = "gradient"  -> "Aurora gradient icon, smooth flowing colors, modern app style"
       [] s = "geometric" -> "Geometric pattern icon, interlocking shapes, mathematical"
       [] s = "retro"     -> "Vintage retro icon, warm 70s colors, halftone texture, nostalgic"]

\* imagen.ts: PLATFORM_RATIOS[platform] ("undefined" for a key it does not hold)
PLATFORM_RATIOS(p) ==
  CASE p = "twitter"  -> "3:1"
    [] p = "linkedin" -> "4:1"
    [] p = "youtube"  -> "16:9"
    [] p = "facebook" -> "8:3"
    [] p = "og"       -> "1200:630"
    [] OTHER          -> "undefined"

\* Variant: table.style || table.minimal (the property named 'style').
StyleEntryByName(table, s) == table["minimal"]

\* table[style] || table.minimal
StyleEntry(table, s) ==
  IF s \in DOMAIN table /\ table[s] # "" THEN table[s] ELSE table["minimal"]

\* What a generator sends to the image model: the API method, the style text
\* its prompt carries, the aspect ratio, and whether ` (Variation Seed:
\* ${Date.now()})` is appended to the prompt.
ImageCall(kind, platform, s) ==
  CASE kind = "banner" ->
         [api |-> "generateContent", styleText |-> s,
          aspectRatio |-> PLATFORM_RATIOS(platform), seed |-> TRUE]
    [] kind = "logo" ->
         [api |-> "generateContent", styleText |-> StyleEntry(logoStyles, s),
          aspectRatio |-> "1:1", seed |-> TRUE]
    [] kind = "icon" ->
         [api |-> "generateImages", styleText |-> StyleEntry(iconStyles, s),
          aspectRatio |-> "1:1", seed |-> FALSE]

NoCall == [api |-> "none", styleText |-> "", aspectRatio |-> "", seed |-> FALSE]

\* Math.pow(2, n) for a natural n.
RECURSIVE Pow2(_)
Pow2(n) == IF n = 0 THEN 1 ELSE 2 * Pow2(n - 1)

SeqsUpTo(S, n) == UNION {[1..k -> S] : k \in 0..n}

\* Array.prototype.includes
Includes(s, x) == \E k \in 1..Len(s) : s[k] = x

----------------------------------------------------------------------------
(* Values *)

\* An optional value: <<>> is undefined, <<v>> is v.
Undefined == <<>>
Some(v) == <<v>>
IsDefined(o) == Len(o) > 0
Get(o) == o[1]

\* BrandAnalysis records (the fields the orchestrator and the claims look at).
ProvidedAnalysis == [brandName |-> "Provided Co", summary |-> "supplied by the client"]
UnnamedAnalysis  == [brandName |-> "", summary |-> "supplied by the client"]
NoBrand          == [brandName |-> "", summary |-> ""]

----------------------------------------------------------------------------
(* gemini.ts: the text model's reply and what analyzeBrand makes of it *)

\* Longest reply text considered, in tokens.
MaxReplyLen == 5

\* Most fields of a replied object that are absent or empty at once (the
\* object with no member at all is always considered).
MaxOdd == 1

\* A reply text is a sequence of tokens: "w" a word of prose, "fence" a code
\* fence (three backquotes), "json" the language tag written right after a fence, "{" and "}"
\* a lone brace, "obj" the text of a well-formed JSON object with members.
ReplyTokens == {"w", "fence", "json", "{", "}", "obj"}

\* BrandAnalysis: the fields of the record analyzeBrand returns.
Fields == {"brandName", "summary", "industry", "vibe", "slogan", "cta", "title",
           "brandColors", "iconConcept", "visualPrompt", "twitterBio", "linkedinHeadline"}

\* The value a field holds in the replied object when it is present and non-empty.
ParsedValue(f) ==
  CASE f = "brandName"        -> "Acme Rockets"
    [] f = "summary"          -> "from the text model"
    [] f = "industry"         -> "Space logistics"
    [] f = "vibe"             -> "Bold"
    [] f = "slogan"           -> "Orbit on schedule"
    [] f = "cta"              -> "Book a launch"
    [] f = "title"            -> "Acme Rockets | Launches"
    [] f = "brandColors"      -> <<"#112233">>
    [] f = "iconConcept"      -> "rocket"
    [] f = "visualPrompt"     -> "a rocket over a dark sky"
    [] f = "twitterBio"       -> "We ship to orbit"
    [] f = "linkedinHeadline" -> "Space logistics for everyone"

\* The value a field holds when it is present and empty: '' for a string,
\* [] for the array of colors.
EmptyValue(f) == IF f = "brandColors" THEN <<>> ELSE ""

\* JavaScript truthiness of a field value: '' is falsy, an array never is.
Truthy(f, v) == IF f = "brandColors" THEN TRUE ELSE v # ""

\* The members of a replied object: per field, absent or its value.
DataOf(profile) ==
  [f \in Fields |->
     CASE profile[f] = "absent" -> Undefined
       [] profile[f] = "empty"  -> Some(EmptyValue(f))
       [] profile[f] = "value"  -> Some(ParsedValue(f))]

EmptyData == DataOf([f \in Fields |-> "absent"])
FullData == DataOf([f \in Fields |-> "value"])

\* The replied objects considered: at most MaxOdd fields absent or empty.
Datas ==
  UNION {{DataOf([f \in Fields |-> IF f \in S THEN o[f] ELSE "value"]) :
             o \in [S -> {"absent", "empty"}]} :
           S \in {T \in SUBSET Fields : Cardinality(T) <= MaxOdd}}

\* Variant: const text = response.text
ReplyTextRaw(text) == text

\* const text = response.text || '{}'
ReplyText(text) == IF text = <<>> THEN <<"{", "}">> ELSE text

Min(S) == CHOOSE x \in S : \A y \in S : x <= y
Max(S) == CHOOSE x \in S : \A y \in S : x >= y

\* const codeBlockMatch = text.match(...): the tokens between the first
\* fence (and its language tag) and the next fence.
CodeBlockMatch(t) ==
  LET fences == {k \in 1..Len(t) : t[k] = "fence"} IN
  IF Cardinality(fences) < 2
    THEN Undefined
    ELSE LET a == Min(fences)
             b == Min(fences \ {a})
             from == IF a + 1 < b /\ t[a + 1] = "json" THEN a + 2 ELSE a + 1
         IN  Some(SubSeq(t, from, b - 1))

\* text.match(/\{[\s\S]*\}/): from the first opening brace to the last closing one.
JsonObjMatch(t) ==
  LET opens == {k \in 1..Len(t) : t[k] \in {"{", "obj"}}
      closes == {k \in 1..Len(t) : t[k] \in {"}", "obj"}}
  IN  IF opens = {} \/ closes = {} \/ Max(closes) < Min(opens)
        THEN Undefined
        ELSE Some(SubSeq(t, Min(opens), Max(closes)))

\* let jsonStr = text; if (codeBlockMatch) ... else if (jsonObjMatch) ...
ExtractJson(t) ==
  IF IsDefined(CodeBlockMatch(t)) THEN Get(CodeBlockMatch(t))
  ELSE IF IsDefined(JsonObjMatch(t)) THEN Get(JsonObjMatch(t))
  ELSE t

\* JSON.parse(jsonStr) returns an object: the text is one object, or '{}'.
ParseOk(jsonStr) == jsonStr = <<"obj">> \/ jsonStr = <<"{", "}">>

\* const data = JSON.parse(jsonStr)
ParsedData(jsonStr, members) == IF jsonStr = <<"obj">> THEN members ELSE EmptyData

\* Variant: data.field, with no default.
OrDefaultNone(data, f, dflt) ==
  IF IsDefined(data[f]) THEN Get(data[f]) ELSE EmptyValue(f)

\* data.field || default
OrDefault(data, f, dflt) ==
  IF IsDefined(data[f]) /\ Truthy(f, Get(data[f])) THEN Get(data[f]) ELSE dflt

\* return { brandName: data.brandName || 'Brand', ... }
BuildAnalysis(data) ==
  [brandName        |-> OrDefault(data, "brandName", "Brand"),
   summary          |-> OrDefault(data, "summary", "Modern digital service"),
   industry         |-> OrDefault(data, "industry", "Technology"),
   vibe             |-> OrDefault(data, "vibe", "Modern, Professional"),
   slogan           |-> OrDefault(data, "slogan", "Innovation for everyone"),
   cta              |-> OrDefault(data, "cta", "Get Started"),
   title            |-> OrDefault(data, "title", OrDefault(data, "brandName", "Brand")),
   brandColors      |-> OrDefault(data, "brandColors", <<"#3b82f6", "#ffffff", "#000000">>),
   iconConcept      |-> OrDefault(data, "iconConcept", "abstract symbol"),
   visualPrompt     |-> OrDefault(data, "visualPrompt", ""),
   twitterBio       |-> OrDefault(data, "twitterBio", ""),
   linkedinHeadline |-> OrDefault(data, "linkedinHeadline", "")]

\* The record analyzeBrand returns for a reply that names every field.
AnalyzedBrand == BuildAnalysis(FullData)

\* A reply of the text model: its text and the members of the object the
\* token "obj" stands for.  NoReply: the call itself failed.
NoReply == [got |-> FALSE, text |-> <<>>, data |-> EmptyData]

\* The replies considered: every text up to MaxReplyLen tokens, its object
\* (if it holds one) naming every field; and the reply that is one object,
\* with every choice of members.
Replies ==
  {[got |-> TRUE, text |-> t,
    data |-> IF \E k \in 1..Len(t) : t[k] = "obj" THEN FullData ELSE EmptyData] :
      t \in SeqsUpTo(ReplyTokens, MaxReplyLen)}
  \cup {[got |-> TRUE, text |-> <<"obj">>, data |-> d] : d \in Datas}

\* The instruction prompt analyzeBrand builds: the style guide it embeds.
AnalyzePrompt(s) == [styleText |-> StyleEntry(STYLE_GUIDES, s)]
NoPrompt == [styleText |-> ""]

\* Error objects: status (0 when the error carries none), message (its words)
\* and the image-model call that produced it (0: not from a call).
NoError == [status |-> 0, message |-> <<>>, call |-> 0]
ConfigError == [status |-> 0, message |-> <<"GEMINI_API_KEY", "not", "configured">>, call |-> 0]

\* What one image-model call can come back with.
Outcomes == {"image", "noimage", "e429", "e503", "overloaded", "other"}

\* The error a failed attempt leaves in the catch block.  "noimage" is the
\* Error thrown by the generator itself when the response carries no image.
AttemptError(outcome, kind, callNo) ==
  CASE outcome = "noimage" ->
         [status |-> 0,
          message |-> IF kind = "icon" THEN <<"No", "icon", "data", "in", "response">>
                                       ELSE <<"No", "image", "data", "in", "response">>,
          call |-> callNo]
    [] outcome = "e429" ->
         [status |-> 429, message |-> <<"Too", "Many", "Requests">>, call |-> callNo]
    [] outcome = "e503" ->
         [status |-> 503, message |-> <<"Service", "Unavailable">>, call |-> callNo]
    [] outcome = "overloaded" ->
         [status |-> 500, message |-> <<"The", "model", "is", "overloaded">>, call |-> callNo]
    [] outcome = "other" ->
         [status |-> 400, message |-> <<"Invalid", "argument">>, call |-> callNo]

\* The string a generator returns: `data:image/png;base64,${data}`, the data
\* being those of the image-model call callNo.
DataUrl(callNo) == <<"data:image/png;base64", callNo>>

----------------------------------------------------------------------------
(* State *)

VARIABLES
  request,      \* the body of the request
  hasKey,       \* process.env.GEMINI_API_KEY is set
  caller,       \* "orchestrator" | "direct": who invokes the generators
  pc,           \* where the handler (or the direct invocation) is waiting
  brandAnalysis,\* index.ts: let brandAnalysis
  analyzeCalls, \* invocations of analyzeBrand
  analyzeArgs,  \* the (input, inputType) analyzeBrand was invoked with
  textCalls,    \* text-model calls issued
  analyzeResult,\* "none" | "pending" | "returned" | "thrown": analyzeBrand's promise
  textPrompt,   \* the prompt analyzeBrand sent to the text model
  textReply,    \* the text model's reply
  cur,          \* which of two requests the variables above belong to
  other,        \* the local state of the other request's handler, suspended at an await
  i,            \* index of the target being generated
  invoked,      \* generator invocations started
  gen,          \* arguments of the current generator invocation
  attempt,      \* imagen.ts: let attempt
  lastError,    \* imagen.ts: let lastError
  genCalls,     \* image-model calls issued by the current invocation
  genResult,    \* how the latest invocation ended
  calls,        \* image-model calls issued in all
  inFlight,     \* image-model calls awaiting their response
  waitMs,       \* duration of the wait in progress (0: none)
  style,        \* the style value handed to analyzeBrand and the generators
  invokedLog,   \* the generator invocations started, in order
  lastCall,     \* what the latest image-model call was sent
  results,      \* per finished target: "ok" | "failed"
  assets,       \* index.ts: const assets
  response      \* the HTTP response, once sent

vars == <<request, hasKey, caller, pc, brandAnalysis, analyzeCalls, analyzeArgs,
          textCalls, analyzeResult, i, invoked, gen, attempt, lastError, genCalls, genResult,
          calls, inFlight, waitMs, results, assets, response, style, invokedLog, lastCall,
          textPrompt, textReply, cur, other>>

orchVars == <<pc, i, waitMs, results, assets, response>>
analysisVars == <<brandAnalysis, analyzeCalls, analyzeArgs, textCalls, analyzeResult,
                 textPrompt, textReply>>
genVars == <<invoked, gen, attempt, lastError, genCalls, genResult, calls, inFlight,
            invokedLog, lastCall>>
envVars == <<request, hasKey, caller, style, cur, other>>

NoResponse == [status |-> 0, keys |-> {}, success |-> FALSE, error |-> <<>>,
               assets |-> <<>>, brandAnalysis |-> NoBrand]
NoGen == [kind |-> "none", platform |-> "none", brand |-> NoBrand]
NoResult == [status |-> "none", image |-> <<>>, error |-> NoError]
NoArgs == [input |-> "", inputType |-> "none"]

Requests ==
  [url : {"", "https://acme.test"},
   description : {"", "Acme Rockets, a space logistics startup"},
   brandAnalysis : {Undefined, Some(UnnamedAnalysis), Some(ProvidedAnalysis)},
   platforms : {Undefined} \cup {Some(ps) : ps \in SeqsUpTo(RequestTags, MaxPlatforms)},
   includeFavicon : BOOLEAN]

EmptyRequest ==
  [url |-> "", description |-> "", brandAnalysis |-> Undefined,
   platforms |-> Undefined, includeFavicon |-> FALSE]

----------------------------------------------------------------------------
(* index.ts: the request's targets *)

\* Variant: const bannerPlatforms = platforms
bannerPlatformsAll(req) == Get(req.platforms)

\* platforms.filter(p => p !== 'favicon')
bannerPlatforms(req) == SelectSeq(Get(req.platforms), LAMBDA p : p # "favicon")

\* const needsFavicon = platforms.includes('favicon') || includeFavicon
needsFavicon(req) == Includes(Get(req.platforms), "favicon") \/ req.includeFavicon

\* Variant: the favicon block runs before the banner loop.
TargetsFaviconFirst(req) ==
  (IF needsFavicon(req) THEN <<"favicon">> ELSE <<>>) \o bannerPlatforms(req)

\* The generator invocations of a request in program order: the banner loop,
\* then the favicon block.
Targets(req) ==
  bannerPlatforms(req) \o (IF needsFavicon(req) THEN <<"favicon">> ELSE <<>>)

\* The generator a target goes to.
TargetKind(req, k) == IF k <= Len(bannerPlatforms(req)) THEN "banner" ELSE "icon"

\* Variant: the provided analysis is used only when there is nothing to analyze.
UsesProvidedUnlessInput(req) ==
  /\ IsDefined(req.brandAnalysis) /\ Get(req.brandAnalysis).brandName # ""
  /\ req.url = "" /\ req.description = ""

\* if (providedAnalysis && providedAnalysis.brandName) ... else analyzeBrand
UsesProvided(req) ==
  IsDefined(req.brandAnalysis) /\ Get(req.brandAnalysis).brandName # ""

\* if (!url && !description && !providedAnalysis)
MissingInput(req) ==
  req.url = "" /\ req.description = "" /\ ~IsDefined(req.brandAnalysis)

\* Variant: if (!platforms), an empty list passes.
MissingPlatformsUndefinedOnly(req) == ~IsDefined(req.platforms)

\* if (!platforms || platforms.length === 0)
MissingPlatforms(req) ==
  ~IsDefined(req.platforms) \/ Len(Get(req.platforms)) = 0

----------------------------------------------------------------------------
(* imagen.ts: the retry policy *)

\* Variant: every error that carries an HTTP status is retried.
IsRetryableAnyStatus(err) ==
  err.status # 0 \/ Includes(err.message, "overloaded")

\* error.status === 429 || error.status === 503 || error.message?.includes('overloaded')
IsRetryable(err) ==
  err.status = 429 \/ err.status = 503 \/ Includes(err.message, "overloaded")

\* Variant: the exponent is attempt + 2.
WaitTimeShifted(att) == Pow2(att + 2) * BackoffUnitMs

\* const waitTime = Math.pow(2, attempt + 1) * 2000
WaitTime(att) == Pow2(att + 1) * BackoffUnitMs

\* Variant: attempt <= maxRetries.
LoopContinuesInclusive(att) == att <= maxRetries

\* for (...; attempt < maxRetries; ...)
LoopContinues(att) == att < maxRetries

\* Variant: lastError = lastError || error (the first error is kept).
CatchAssignFirst(prev, err) == IF prev = NoError THEN err ELSE prev

\* catch (error) { lastError = error
CatchAssign(prev, err) == err

\* throw lastError || new Error('... failed after retries')
Thrown(err) ==
  IF err = NoError
    THEN [status |-> 0, message |-> <<"generation", "failed", "after", "retries">>, call |-> 0]
    ELSE err

----------------------------------------------------------------------------
(* index.ts: responses *)

\* res.status(400|500).json({ success: false, error })
ErrorResponse(code, msg) ==
  [status |-> code, keys |-> {"success", "error"}, success |-> FALSE, error |-> msg,
   assets |-> <<>>, brandAnalysis |-> NoBrand]

\* Variant: the request fails as soon as one target failed.
AggregateAllOrNothing(as, brand, n) ==
  IF Len(as) < n
    THEN ErrorResponse(500, <<"Failed to generate any images. Please try again.">>)
    ELSE [status |-> 200, keys |-> {"success", "assets", "brandAnalysis"}, success |-> TRUE,
          error |-> <<>>, assets |-> as, brandAnalysis |-> brand]

\* if (assets.length === 0) 500 ... else res.json({ success: true, assets, brandAnalysis })
Aggregate(as, brand, n) ==
  IF Len(as) = 0
    THEN ErrorResponse(500, <<"Failed to generate any images. Please try again.">>)
    ELSE [status |-> 200, keys |-> {"success", "assets", "brandAnalysis"}, success |-> TRUE,
          error |-> <<>>, assets |-> as, brandAnalysis |-> brand]

\* Variant: the wait only separates consecutive invocations.
StaggerWaitBetween(k) == IF k = 1 THEN 0 ELSE STAGGER_MS

\* await wait(STAGGER_MS) ahead of the k-th generator invocation
StaggerWait(k) == STAGGER_MS

\* The handler's local state: req.body and every variable declared inside
\* the handler and the functions it awaits.
Locals ==
  [request |-> request,
   pc |-> pc,
   brandAnalysis |-> brandAnalysis,
   analyzeCalls |-> analyzeCalls,
   analyzeArgs |-> analyzeArgs,
   textCalls |-> textCalls,
   analyzeResult |-> analyzeResult,
   textPrompt |-> textPrompt,
   textReply |-> textReply,
   i |-> i,
   invoked |-> invoked,
   gen |-> gen,
   attempt |-> attempt,
   lastError |-> lastError,
   genCalls |-> genCalls,
   genResult |-> genResult,
   calls |-> calls,
   inFlight |-> inFlight,
   waitMs |-> waitMs,
   results |-> results,
   assets |-> assets,
   response |-> response,
   style |-> style,
   invokedLog |-> invokedLog,
   lastCall |-> lastCall]

\* The local state of a handler that has just been entered with body req.
InitialLocals(req) ==
  [request |-> req,
   pc |-> "idle",
   brandAnalysis |-> NoBrand,
   analyzeCalls |-> 0,
   analyzeArgs |-> NoArgs,
   textCalls |-> 0,
   analyzeResult |-> "none",
   textPrompt |-> NoPrompt,
   textReply |-> NoReply,
   i |-> 0,
   invoked |-> 0,
   gen |-> NoGen,
   attempt |-> 0,
   lastError |-> NoError,
   genCalls |-> 0,
   genResult |-> NoResult,
   calls |-> 0,
   inFlight |-> 0,
   waitMs |-> 0,
   results |-> <<>>,
   assets |-> <<>>,
   response |-> NoResponse,
   style |-> "minimal",
   invokedLog |-> <<>>,
   lastCall |-> NoCall]

\* No second request.
NoOther == [InitialLocals(EmptyRequest) EXCEPT !.pc = "none"]

----------------------------------------------------------------------------
(* Initial states *)

Init ==
  /\ request \in Requests
  /\ hasKey \in BOOLEAN
  /\ caller = "orchestrator"
  /\ style = "minimal"
  /\ invokedLog = <<>>
  /\ lastCall = NoCall
  /\ pc = "idle"
  /\ brandAnalysis = NoBrand
  /\ analyzeCalls = 0
  /\ analyzeArgs = NoArgs
  /\ textCalls = 0
  /\ analyzeResult = "none"
  /\ textPrompt = NoPrompt
  /\ textReply = NoReply
  /\ cur = 1
  /\ other = NoOther
  /\ i = 0
  /\ invoked = 0
  /\ gen = NoGen
  /\ attempt = 0
  /\ lastError = NoError
  /\ genCalls = 0
  /\ genResult = NoResult
  /\ calls = 0
  /\ inFlight = 0
  /\ waitMs = 0
  /\ results = <<>>
  /\ assets = <<>>
  /\ response = NoResponse

InitGen ==
  /\ request = EmptyRequest
  /\ hasKey \in BOOLEAN
  /\ caller = "direct"
  /\ style \in Style \cup {UnknownStyle}
  /\ invokedLog = <<>>
  /\ lastCall = NoCall
  /\ pc = "direct_idle"
  /\ brandAnalysis = NoBrand
  /\ analyzeCalls = 0
  /\ analyzeArgs = NoArgs
  /\ textCalls = 0
  /\ analyzeResult = "none"
  /\ textPrompt = NoPrompt
  /\ textReply = NoReply
  /\ cur = 1
  /\ other = NoOther
  /\ i = 0
  /\ invoked = 0
  /\ gen = NoGen
  /\ attempt = 0
  /\ lastError = NoError
  /\ genCalls = 0
  /\ genResult = NoResult
  /\ calls = 0
  /\ inFlight = 0
  /\ waitMs = 0
  /\ results = <<>>
  /\ assets = <<>>
  /\ response = NoResponse

----------------------------------------------------------------------------
(* index.ts: the orchestrator between two awaits *)

\* res.status(..).json(..) and return
Respond(r) ==
  /\ pc' = "done"
  /\ response' = r
  /\ waitMs' = 0
  /\ UNCHANGED <<i, results, assets>>

\* Top of a loop iteration (or of the favicon block): await wait(STAGGER_MS)
BeginTarget(k, as, rs) ==
  /\ pc' = "stagger"
  /\ i' = k
  /\ waitMs' = StaggerWait(k)
  /\ assets' = as
  /\ results' = rs
  /\ response' = response

\* Variant: the response is a success whatever assets holds.
FinishAlwaysSuccess(as, rs) ==
  /\ pc' = "done"
  /\ waitMs' = 0
  /\ assets' = as
  /\ results' = rs
  /\ response' = [status |-> 200, keys |-> {"success", "assets", "brandAnalysis"},
                  success |-> TRUE, error |-> <<>>, assets |-> as,
                  brandAnalysis |-> brandAnalysis]
  /\ i' = i

\* Past the last target: the response is built from assets.
Finish(as, rs) ==
  /\ pc' = "done"
  /\ waitMs' = 0
  /\ assets' = as
  /\ results' = rs
  /\ response' = Aggregate(as, brandAnalysis, Len(Targets(request)))
  /\ i' = i

\* Variant: a failed target ends the batch.
AfterTargetAbortOnFailure(as, rs) ==
  IF i < Len(Targets(request)) /\ rs[Len(rs)] = "ok"
    THEN BeginTarget(i + 1, as, rs)
    ELSE Finish(as, rs)

\* After target i: the next iteration, the favicon block, or the response.
AfterTarget(as, rs) ==
  IF i < Len(Targets(request)) THEN BeginTarget(i + 1, as, rs) ELSE Finish(as, rs)

\* Variant: every asset carries the favicon's literal dimensions.
AssetSquare(g, base64) ==
  [platform |-> g.platform,
   dimensions |-> [width |-> 512, height |-> 512],
   base64 |-> base64]

\* assets.push({ platform, dimensions, base64 })
Asset(g, base64) ==
  [platform |-> g.platform,
   dimensions |-> IF g.kind = "icon" THEN [width |-> 512, height |-> 512]
                                     ELSE PLATFORM_DIMENSIONS[g.platform],
   base64 |-> base64]

\* Variant: a failed target is given a placeholder asset.
SettleWithPlaceholder(res, g) ==
  /\ genResult' = res
  /\ IF caller = "direct"
       THEN /\ pc' = "settled"
            /\ waitMs' = 0
            /\ UNCHANGED <<i, results, assets, response>>
       ELSE IF res.status = "returned"
              THEN AfterTarget(Append(assets, Asset(g, res.image)), Append(results, "ok"))
              ELSE AfterTarget(Append(assets, Asset(g, <<"data:image/png;base64", 0>>)),
                               Append(results, "failed"))

\* A generator invocation ends: it returns a data URL or throws.  Under the
\* orchestrator the try block pushes the asset, the catch block logs and drops
\* the error, and the handler goes on.
Settle(res, g) ==
  /\ genResult' = res
  /\ IF caller = "direct"
       THEN /\ pc' = "settled"
            /\ waitMs' = 0
            /\ UNCHANGED <<i, results, assets, response>>
       ELSE IF res.status = "returned"
              THEN AfterTarget(Append(assets, Asset(g, res.image)), Append(results, "ok"))
              ELSE AfterTarget(assets, Append(results, "failed"))

----------------------------------------------------------------------------
(* imagen.ts: a generator invocation between two awaits *)

\* Top of the for loop with attempt = att, lastError = err, after n calls:
\* either ai.models.generateContent / generateImages is called, or the loop
\* is left and lastError thrown.
Loop(att, err, n, g) ==
  /\ attempt' = att
  /\ lastError' = err
  /\ IF LoopContinues(att)
       THEN /\ genCalls' = n + 1
            /\ calls' = calls + 1
            /\ inFlight' = inFlight + 1
            /\ lastCall' = ImageCall(g.kind, g.platform, style)
            /\ genResult' = NoResult
            /\ pc' = "gen_call"
            /\ waitMs' = 0
            /\ UNCHANGED <<i, results, assets, response>>
       ELSE /\ genCalls' = n
            /\ UNCHANGED <<calls, inFlight, lastCall>>
            /\ Settle([status |-> "thrown", image |-> <<>>, error |-> Thrown(err)], g)

\* generateBannerWithImagen / generateLogoWithImagen / generateIconWithImagen:
\* getClient() throws without the key, else the retry loop is entered.
StartGenerator(kind, platform, brand) ==
  LET g == [kind |-> kind, platform |-> platform, brand |-> brand] IN
  /\ invoked' = invoked + 1
  /\ invokedLog' = Append(invokedLog, [kind |-> kind, platform |-> platform])
  /\ gen' = g
  /\ IF ~hasKey
       THEN /\ attempt' = 0
            /\ lastError' = NoError
            /\ genCalls' = 0
            /\ UNCHANGED <<calls, inFlight, lastCall>>
            /\ Settle([status |-> "thrown", image |-> <<>>, error |-> ConfigError], g)
       ELSE Loop(0, NoError, 0, g)

\* The image-model call comes back: with an image, with no image, or with an error.
CallReturn ==
  /\ pc = "gen_call"
  /\ \E outcome \in Outcomes :
       /\ inFlight' = inFlight - 1
       /\ UNCHANGED <<invoked, gen, attempt, genCalls, calls, invokedLog, lastCall>>
       /\ IF outcome = "image"
            THEN /\ lastError' = lastError
                 /\ Settle([status |-> "returned", image |-> DataUrl(calls), error |-> NoError], gen)
            ELSE LET err == AttemptError(outcome, gen.kind, calls)
                     le == CatchAssign(lastError, err)
                 IN  /\ lastError' = le
                     /\ IF IsRetryable(err)
                          THEN /\ pc' = "backoff"
                               /\ waitMs' = WaitTime(attempt)
                               /\ UNCHANGED <<genResult, i, results, assets, response>>
                          ELSE Settle([status |-> "thrown", image |-> <<>>, error |-> Thrown(le)], gen)
  /\ UNCHANGED <<envVars, analysisVars>>

\* Variant: the wait is over and the same attempt is run again (no attempt++).
BackoffDoneSameAttempt ==
  /\ pc = "backoff"
  /\ UNCHANGED <<invoked, gen, invokedLog>>
  /\ Loop(attempt, lastError, genCalls, gen)
  /\ UNCHANGED <<envVars, analysisVars>>

\* await wait(waitTime) is over: continue, attempt++, the loop test.
BackoffDone ==
  /\ pc = "backoff"
  /\ UNCHANGED <<invoked, gen, invokedLog>>
  /\ Loop(attempt + 1, lastError, genCalls, gen)
  /\ UNCHANGED <<envVars, analysisVars>>

\* Variant: the generator's promise is not awaited; the handler goes on to the
\* next target while the image-model call is in flight.
StaggerDoneNoAwait ==
  /\ pc = "stagger"
  /\ hasKey
  /\ invoked' = invoked + 1
  /\ gen' = [kind |-> TargetKind(request, i), platform |-> Targets(request)[i],
             brand |-> brandAnalysis]
  /\ attempt' = 0
  /\ lastError' = NoError
  /\ genCalls' = 1
  /\ calls' = calls + 1
  /\ inFlight' = inFlight + 1
  /\ invokedLog' = Append(invokedLog, [kind |-> TargetKind(request, i),
                                       platform |-> Targets(request)[i]])
  /\ lastCall' = ImageCall(TargetKind(request, i), Targets(request)[i], style)
  /\ genResult' = NoResult
  /\ AfterTarget(assets, Append(results, "ok"))
  /\ UNCHANGED <<envVars, analysisVars>>

\* await wait(STAGGER_MS) is over: the generator of target i is invoked.
StaggerDone ==
  /\ pc = "stagger"
  /\ StartGenerator(TargetKind(request, i), Targets(request)[i], brandAnalysis)
  /\ UNCHANGED <<envVars, analysisVars>>

\* A generator entry point invoked on its own (SpecGen).
DirectInvoke ==
  /\ pc = "direct_idle"
  /\ \E kind \in {"banner", "logo", "icon"} :
       \E platform \in Platform :
          /\ kind # "banner" => platform = "twitter"
          /\ StartGenerator(kind, IF kind = "banner" THEN platform ELSE kind, ProvidedAnalysis)
  /\ UNCHANGED <<envVars, analysisVars>>

----------------------------------------------------------------------------
(* index.ts and gemini.ts: validation and analysis *)

\* const inputType = url ? 'url' : 'text'; const input = url || description || ''
AnalyzeInput(req) ==
  [input |-> IF req.url # "" THEN req.url ELSE req.description,
   inputType |-> IF req.url # "" THEN "url" ELSE "text"]

\* The handler up to its first await: validation, then the provided analysis
\* or analyzeBrand, whose getClient() throws without the key.
HandleRequest ==
  /\ pc = "idle"
  /\ IF MissingInput(request)
       THEN /\ Respond(ErrorResponse(400, <<"URL, description, or brandAnalysis required">>))
            /\ UNCHANGED analysisVars
       ELSE IF MissingPlatforms(request)
       THEN /\ Respond(ErrorResponse(400, <<"At least one platform required">>))
            /\ UNCHANGED analysisVars
       ELSE IF UsesProvided(request)
       THEN /\ brandAnalysis' = Get(request.brandAnalysis)
            /\ UNCHANGED <<analyzeCalls, analyzeArgs, textCalls, analyzeResult,
                           textPrompt, textReply>>
            /\ BeginTarget(1, <<>>, <<>>)
       ELSE /\ analyzeCalls' = analyzeCalls + 1
            /\ analyzeArgs' = AnalyzeInput(request)
            /\ brandAnalysis' = brandAnalysis
            /\ textReply' = textReply
            /\ IF ~hasKey
                 THEN /\ textCalls' = textCalls
                      /\ textPrompt' = textPrompt
                      /\ analyzeResult' = "thrown"
                      /\ Respond(ErrorResponse(500, ConfigError.message))
                 ELSE /\ textCalls' = textCalls + 1
                      /\ textPrompt' = AnalyzePrompt(style)
                      /\ analyzeResult' = "pending"
                      /\ pc' = "analyzing"
                      /\ UNCHANGED <<i, waitMs, results, assets, response>>
  /\ UNCHANGED <<envVars, genVars>>

\* analyzeBrand invoked on its own: getClient(), the prompt, the text-model call.
DirectAnalyze ==
  /\ pc = "direct_idle"
  /\ analyzeCalls' = analyzeCalls + 1
  /\ analyzeArgs' = [input |-> "Acme Rockets, a space logistics startup", inputType |-> "text"]
  /\ brandAnalysis' = brandAnalysis
  /\ textReply' = textReply
  /\ IF ~hasKey
       THEN /\ textCalls' = textCalls
            /\ textPrompt' = textPrompt
            /\ analyzeResult' = "thrown"
            /\ pc' = "settled"
       ELSE /\ textCalls' = textCalls + 1
            /\ textPrompt' = AnalyzePrompt(style)
            /\ analyzeResult' = "pending"
            /\ pc' = "analyzing"
  /\ UNCHANGED <<i, waitMs, results, assets, response>>
  /\ UNCHANGED <<envVars, genVars>>

\* The replies considered: every reply when analyzeBrand is invoked on its
\* own; under the handler a failed call, a reply of prose and a reply that is
\* one object naming every field.
ReplyChoices ==
  IF caller = "direct"
    THEN Replies \cup {NoReply}
    ELSE {NoReply,
          [got |-> TRUE, text |-> <<"w">>, data |-> EmptyData],
          [got |-> TRUE, text |-> <<"obj">>, data |-> FullData]}

\* analyzeBrand returned its record: the handler goes on to the first target.
AnalysisReturned ==
  IF caller = "direct"
    THEN /\ pc' = "settled"
         /\ UNCHANGED <<i, waitMs, results, assets, response>>
    ELSE BeginTarget(1, <<>>, <<>>)

\* Variant: the outer catch sends the 500 and the handler goes on to generate.
AnalysisThrewGoesOn ==
  IF caller = "direct"
    THEN /\ pc' = "settled"
         /\ UNCHANGED <<i, waitMs, results, assets, response>>
    ELSE /\ pc' = "stagger"
         /\ i' = 1
         /\ waitMs' = StaggerWait(1)
         /\ assets' = <<>>
         /\ results' = <<>>
         /\ response' = ErrorResponse(500, <<"Failed to analyze brand. Please try again.">>)

\* analyzeBrand threw: the handler's outer catch sends the 500.
AnalysisThrew ==
  IF caller = "direct"
    THEN /\ pc' = "settled"
         /\ UNCHANGED <<i, waitMs, results, assets, response>>
    ELSE Respond(ErrorResponse(500, <<"Failed to analyze brand. Please try again.">>))

\* Variant: a failed analysis is swallowed and generation goes on with a
\* default record.
AnalyzeReturnFallback ==
  /\ pc = "analyzing"
  /\ \E reply \in ReplyChoices :
       LET jsonStr == ExtractJson(ReplyText(reply.text)) IN
       /\ textReply' = reply
       /\ IF reply.got /\ ParseOk(jsonStr)
            THEN /\ brandAnalysis' = BuildAnalysis(ParsedData(jsonStr, reply.data))
                 /\ analyzeResult' = "returned"
                 /\ AnalysisReturned
            ELSE /\ brandAnalysis' = BuildAnalysis(EmptyData)
                 /\ analyzeResult' = "thrown"
                 /\ AnalysisReturned
  /\ UNCHANGED <<analyzeCalls, analyzeArgs, textCalls, textPrompt>>
  /\ UNCHANGED <<envVars, genVars>>

\* ai.models.generateContent of analyzeBrand comes back.  A reply whose
\* extracted text parses gives the record; a failed call or an unparseable
\* reply throws 'Failed to analyze brand. Please try again.'.
AnalyzeReturn ==
  /\ pc = "analyzing"
  /\ \E reply \in ReplyChoices :
       LET jsonStr == ExtractJson(ReplyText(reply.text)) IN
       /\ textReply' = reply
       /\ IF reply.got /\ ParseOk(jsonStr)
            THEN /\ brandAnalysis' = BuildAnalysis(ParsedData(jsonStr, reply.data))
                 /\ analyzeResult' = "returned"
                 /\ AnalysisReturned
            ELSE /\ brandAnalysis' = brandAnalysis
                 /\ analyzeResult' = "thrown"
                 /\ AnalysisThrew
  /\ UNCHANGED <<analyzeCalls, analyzeArgs, textCalls, textPrompt>>
  /\ UNCHANGED <<envVars, genVars>>

----------------------------------------------------------------------------
(* Specifications *)

Next == HandleRequest \/ AnalyzeReturn \/ StaggerDone \/ CallReturn \/ BackoffDone

Spec == Init /\ [][Next]_vars

\* The handler under fair scheduling: a timer that was set fires, an external
\* call that was issued returns or fails, and the handler's own code runs on.
Fairness ==
  /\ WF_vars(HandleRequest)
  /\ WF_vars(AnalyzeReturn)
  /\ WF_vars(StaggerDone)
  /\ WF_vars(CallReturn)
  /\ WF_vars(BackoffDone)

\* The requests termination is checked for: a description, no url, no
\* brandAnalysis or a named one; any platforms, any includeFavicon.
LiveRequests ==
  {r \in Requests : r.url = "" /\ r.description # ""
                      /\ r.brandAnalysis \in {Undefined, Some(ProvidedAnalysis)}}

InitLive ==
  /\ request \in LiveRequests
  /\ hasKey \in BOOLEAN
  /\ caller = "orchestrator"
  /\ style = "minimal"
  /\ invokedLog = <<>>
  /\ lastCall = NoCall
  /\ pc = "idle"
  /\ brandAnalysis = NoBrand
  /\ analyzeCalls = 0
  /\ analyzeArgs = NoArgs
  /\ textCalls = 0
  /\ analyzeResult = "none"
  /\ textPrompt = NoPrompt
  /\ textReply = NoReply
  /\ cur = 1
  /\ other = NoOther
  /\ i = 0
  /\ invoked = 0
  /\ gen = NoGen
  /\ attempt = 0
  /\ lastError = NoError
  /\ genCalls = 0
  /\ genResult = NoResult
  /\ calls = 0
  /\ inFlight = 0
  /\ waitMs = 0
  /\ results = <<>>
  /\ assets = <<>>
  /\ response = NoResponse

SpecLive == InitLive /\ [][Next]_vars /\ Fairness

----------------------------------------------------------------------------
(* index.ts: two requests in one process *)

\* The two bodies.
PairRequests ==
  {[url |-> "", description |-> "Acme Rockets, a space logistics startup",
    brandAnalysis |-> Undefined, platforms |-> Some(<<"twitter">>), includeFavicon |-> FALSE],
   [url |-> "", description |-> "", brandAnalysis |-> Some(ProvidedAnalysis),
    platforms |-> Some(<<"linkedin">>), includeFavicon |-> TRUE]}

\* Variant: assets is a module-level array, the same one for both handlers.
SwitchSharedAssets ==
  /\ other.pc \notin {"none", "done"}
  /\ cur' = 3 - cur
  /\ other' = Locals
  /\ request' = other.request
  /\ pc' = other.pc
  /\ brandAnalysis' = other.brandAnalysis
  /\ analyzeCalls' = other.analyzeCalls
  /\ analyzeArgs' = other.analyzeArgs
  /\ textCalls' = other.textCalls
  /\ analyzeResult' = other.analyzeResult
  /\ textPrompt' = other.textPrompt
  /\ textReply' = other.textReply
  /\ i' = other.i
  /\ invoked' = other.invoked
  /\ gen' = other.gen
  /\ attempt' = other.attempt
  /\ lastError' = other.lastError
  /\ genCalls' = other.genCalls
  /\ genResult' = other.genResult
  /\ calls' = other.calls
  /\ inFlight' = other.inFlight
  /\ waitMs' = other.waitMs
  /\ results' = other.results
  /\ assets' = assets
  /\ response' = other.response
  /\ style' = other.style
  /\ invokedLog' = other.invokedLog
  /\ lastCall' = other.lastCall
  /\ UNCHANGED <<hasKey, caller>>

\* The running handler is suspended at its await (or has returned) and the
\* event loop resumes the other one: each handler finds its own locals.
Switch ==
  /\ other.pc \notin {"none", "done"}
  /\ cur' = 3 - cur
  /\ other' = Locals
  /\ request' = other.request
  /\ pc' = other.pc
  /\ brandAnalysis' = other.brandAnalysis
  /\ analyzeCalls' = other.analyzeCalls
  /\ analyzeArgs' = other.analyzeArgs
  /\ textCalls' = other.textCalls
  /\ analyzeResult' = other.analyzeResult
  /\ textPrompt' = other.textPrompt
  /\ textReply' = other.textReply
  /\ i' = other.i
  /\ invoked' = other.invoked
  /\ gen' = other.gen
  /\ attempt' = other.attempt
  /\ lastError' = other.lastError
  /\ genCalls' = other.genCalls
  /\ genResult' = other.genResult
  /\ calls' = other.calls
  /\ inFlight' = other.inFlight
  /\ waitMs' = other.waitMs
  /\ results' = other.results
  /\ assets' = other.assets
  /\ response' = other.response
  /\ style' = other.style
  /\ invokedLog' = other.invokedLog
  /\ lastCall' = other.lastCall
  /\ UNCHANGED <<hasKey, caller>>

InitPair ==
  /\ hasKey \in BOOLEAN
  /\ caller = "orchestrator"
  /\ cur = 1
  /\ \E r1, r2 \in PairRequests :
       /\ other = InitialLocals(r2)
       /\ request = InitialLocals(r1).request
       /\ pc = InitialLocals(r1).pc
       /\ brandAnalysis = InitialLocals(r1).brandAnalysis
       /\ analyzeCalls = InitialLocals(r1).analyzeCalls
       /\ analyzeArgs = InitialLocals(r1).analyzeArgs
       /\ textCalls = InitialLocals(r1).textCalls
       /\ analyzeResult = InitialLocals(r1).analyzeResult
       /\ textPrompt = InitialLocals(r1).textPrompt
       /\ textReply = InitialLocals(r1).textReply
       /\ i = InitialLocals(r1).i
       /\ invoked = InitialLocals(r1).invoked
       /\ gen = InitialLocals(r1).gen
       /\ attempt = InitialLocals(r1).attempt
       /\ lastError = InitialLocals(r1).lastError
       /\ genCalls = InitialLocals(r1).genCalls
       /\ genResult = InitialLocals(r1).genResult
       /\ calls = InitialLocals(r1).calls
       /\ inFlight = InitialLocals(r1).inFlight
       /\ waitMs = InitialLocals(r1).waitMs
       /\ results = InitialLocals(r1).results
       /\ assets = InitialLocals(r1).assets
       /\ response = InitialLocals(r1).response
       /\ style = InitialLocals(r1).style
       /\ invokedLog = InitialLocals(r1).invokedLog
       /\ lastCall = InitialLocals(r1).lastCall

NextPair == Next \/ Switch

SpecPair == InitPair /\ [][NextPair]_vars

NextGen == DirectInvoke \/ CallReturn \/ BackoffDone \/ DirectAnalyze \/ AnalyzeReturn

SpecGen == InitGen /\ [][NextGen]_vars

----------------------------------------------------------------------------
(* Properties of one generator invocation (SpecGen) *)

\* The retry signal, as the specification words it: status 429, status 503,
\* or the word "overloaded" in the message.
RetrySignal(err) ==
  err.status \in {429, 503} \/ \E k \in 1..Len(err.message) : err.message[k] = "overloaded"

NoImageError(err) ==
  err.message \in {<<"No", "image", "data", "in", "response">>,
                   <<"No", "icon", "data", "in", "response">>}

\* C1: one invocation of a generator entry point (banner, logo, icon) issues
\* at most 3 image-model calls, whatever the calls come back with.
C1_AtMostThreeCalls == genCalls <= 3 /\ calls <= 3

\* A logo invocation whose three calls all failed with a retryable error.
C1_Witness ==
  /\ gen.kind = "logo"
  /\ genCalls = 3
  /\ genResult.status = "thrown"
  /\ RetrySignal(genResult.error)

\* C2 as stated: the wait after attempt n (counted from 1) is 2^(n+1)*2000 ms
\* (8000 ms after attempt 1, 16000 ms after attempt 2).
C2_AsStated == pc = "backoff" => waitMs = Pow2(genCalls + 1) * 2000

\* C2 amended: the wait after attempt n (counted from 1) is 2^n*2000 ms
\* (4000 ms after attempt 1, 8000 ms after attempt 2), and attempt n+1 starts
\* when that wait is over.
C2_BackoffSchedule ==
  [][ /\ (pc = "gen_call" /\ pc' = "backoff") =>
           /\ waitMs' = Pow2(genCalls) * 2000
           /\ genCalls = 1 => waitMs' = 4000
           /\ genCalls = 2 => waitMs' = 8000
      /\ (genCalls' = genCalls + 1 /\ genCalls >= 1) =>
           /\ pc = "backoff"
           /\ waitMs = Pow2(genCalls) * 2000
    ]_vars

\* The wait after the second attempt: 8000 ms.
C2_Witness == pc = "backoff" /\ genCalls = 2 /\ waitMs = 8000

\* C3: a failed attempt is followed by a further attempt only if its error
\* carries the retry signal and fewer than 3 attempts have been made; an
\* attempt failing with any other error ends the invocation with no wait.
C3_RetryClassification ==
  [][ /\ (genCalls' = genCalls + 1 /\ genCalls >= 1) =>
           (RetrySignal(lastError) /\ lastError.call = calls /\ genCalls < 3)
      /\ (pc = "gen_call" /\ lastError' # lastError /\ ~RetrySignal(lastError')) =>
           /\ pc' = "settled"
           /\ waitMs' = 0
           /\ genResult'.status = "thrown"
           /\ genCalls' = genCalls
    ]_vars

\* The second attempt (made after a retryable failure) failed with a 400.
C3_Witness ==
  /\ genResult.status = "thrown"
  /\ genResult.error.status = 400
  /\ genCalls = 2

\* C4 as stated: a response without an image part is retried, so an
\* invocation gives up on such a response only at its third attempt.
C4_NoImageRetried ==
  (genResult.status = "thrown" /\ NoImageError(genResult.error)) => genCalls = 3

\* C5: a failed invocation raises the error of the last attempt it made; an
\* attempt that returns an image ends the invocation with that image.
C5_LastErrorOrImage ==
  /\ (genResult.status = "thrown" /\ genCalls > 0) =>
        /\ genResult.error.call = calls
        /\ genResult.error.message # <<>>
  /\ genResult.status = "returned" =>
        /\ genResult.image = <<"data:image/png;base64", calls>>
        /\ inFlight = 0
        /\ pc \notin {"gen_call", "backoff"}

\* The third attempt failed, after two retryable failures.
C5_Witness ==
  /\ genResult.status = "thrown"
  /\ genCalls = 3
  /\ genResult.error.call = 3

----------------------------------------------------------------------------
(* Properties of the orchestrator (Spec) *)

\* The request passes both validations of the handler.
PassesValidation ==
  /\ (request.url # "" \/ request.description # "" \/ request.brandAnalysis # <<>>)
  /\ request.platforms # <<>>
  /\ request.platforms[1] # <<>>

\* The request carries a brandAnalysis whose brandName is non-empty.
CarriesNamedAnalysis ==
  request.brandAnalysis # <<>> /\ request.brandAnalysis[1].brandName # ""

\* The request's image targets: the entries of platforms other than
\* 'favicon', and the favicon if platforms names it or includeFavicon is set.
BatchSize ==
  LET ps == request.platforms[1] IN
  Cardinality({k \in 1..Len(ps) : ps[k] # "favicon"})
    + (IF (\E k \in 1..Len(ps) : ps[k] = "favicon") \/ request.includeFavicon THEN 1 ELSE 0)

FailedCount == Cardinality({k \in 1..Len(results) : results[k] = "failed"})
OkCount(k) == Cardinality({j \in 1..k : results[j] = "ok"})

\* C6: once the N targets of the batch have been generated, K of them having
\* failed: if K < N the response is a success with exactly N-K assets, one per
\* succeeded target; if K = N it is a failure that carries no assets.
C6_PartialAggregation ==
  (pc = "done" /\ invoked > 0) =>
     LET N == Len(results)
         K == FailedCount
     IN  /\ N = BatchSize
         /\ K < N =>
              /\ response.success
              /\ response.status = 200
              /\ "assets" \in response.keys
              /\ Len(response.assets) = N - K
              /\ \A k \in 1..N : results[k] = "ok" =>
                    response.assets[OkCount(k)].platform = Targets(request)[k]
         /\ K = N =>
              /\ ~response.success
              /\ response.status = 500
              /\ "assets" \notin response.keys
              /\ response.assets = <<>>

\* Three targets, the middle one failed: a success with two assets.
C6_Witness ==
  /\ pc = "done"
  /\ results = <<"ok", "failed", "ok">>
  /\ Len(response.assets) = 2

\* C7: with a brandAnalysis whose brandName is non-empty, analyzeBrand is
\* never invoked, whatever url or description the request carries, and every
\* generator invocation is passed the supplied record.
C7_ProvidedSkipsAnalysis ==
  CarriesNamedAnalysis =>
     /\ analyzeCalls = 0
     /\ textCalls = 0
     /\ invoked > 0 => gen.brand = request.brandAnalysis[1]

\* A request with a url and a named analysis, answered after two invocations.
C7_Witness ==
  /\ CarriesNamedAnalysis
  /\ request.url # ""
  /\ pc = "done"
  /\ invoked = 2

\* C8: a valid request without a named brandAnalysis invokes analyzeBrand
\* exactly once; if the invocation fails no image-model call is made and the
\* response is HTTP 500 with success:false.
C8_AnalysisOnceAndFatal ==
  (PassesValidation /\ ~CarriesNamedAnalysis) =>
     /\ analyzeCalls = (IF pc = "idle" THEN 0 ELSE 1)
     /\ analyzeResult = "thrown" =>
          /\ calls = 0
          /\ invoked = 0
          /\ pc = "done"
          /\ response.status = 500
          /\ ~response.success

\* The text-model call of analyzeBrand failed.
C8_Witness ==
  /\ PassesValidation
  /\ hasKey
  /\ textCalls = 1
  /\ analyzeResult = "thrown"
  /\ response.status = 500

\* C9: at most one image-model call is in flight, and a generator invocation
\* starts only when every earlier invocation has returned or failed.
C9_Sequential ==
  [][ /\ inFlight' <= 1
      /\ invoked' # invoked =>
           /\ inFlight = 0
           /\ Len(results) = invoked
           /\ invoked' = invoked + 1
    ]_vars

\* The call of the second target is in flight, the first target having failed.
C9_Witness ==
  /\ invoked = 2
  /\ inFlight = 1
  /\ results = <<"failed">>

\* C10: every generator invocation, the first of the batch included, starts
\* at the end of a 500 ms stagger wait.
C10_StaggerBeforeEach ==
  [][ invoked' # invoked => (pc = "stagger" /\ waitMs = 500) ]_vars

\* The favicon generator running as the third invocation of a batch.
C10_Witness ==
  /\ invoked = 3
  /\ gen.kind = "icon"
  /\ pc = "gen_call"

\* The generator invocations the request calls for, in program order: one
\* banner invocation per entry of platforms other than 'favicon', then one icon
\* invocation if platforms names 'favicon' or includeFavicon is set.
ExpectedInvocations ==
  LET ps == request.platforms[1]
      banners == SelectSeq(ps, LAMBDA p : p # "favicon")
      fav == IF (\E k \in 1..Len(ps) : ps[k] = "favicon") \/ request.includeFavicon
               THEN <<[kind |-> "icon", platform |-> "favicon"]>>
               ELSE <<>>
  IN  [k \in 1..Len(banners) |-> [kind |-> "banner", platform |-> banners[k]]] \o fav

\* The handler went past validation and analysis into the generation phase.
EnteredGeneration == PassesValidation /\ pc # "idle" /\ pc # "analyzing" /\ invoked > 0

\* C11: a failed generator invocation never aborts the batch: the invocations
\* started so far are always a prefix of the request's targets (one per banner
\* entry of platforms, then one for the favicon if requested), and when the
\* response is sent every one of them has been invoked exactly once.
C11_EveryTargetInvokedOnce ==
  EnteredGeneration =>
     /\ Len(invokedLog) <= Len(ExpectedInvocations)
     /\ invokedLog = SubSeq(ExpectedInvocations, 1, Len(invokedLog))
     /\ pc = "done" => invokedLog = ExpectedInvocations

\* The first of three targets failed and the other two were still invoked.
C11_Witness ==
  /\ pc = "done"
  /\ Len(invokedLog) = 3
  /\ results[1] = "failed"
  /\ results[3] = "ok"

\* C12: a request that carries none of url, description and brandAnalysis, or
\* whose platforms is missing or empty, is answered with HTTP 400 and
\* success:false, and neither analyzeBrand nor any generator is invoked.
C12_ValidationRejects ==
  LET noInput == request.url = "" /\ request.description = "" /\ request.brandAnalysis = <<>>
      noPlatforms == request.platforms = <<>> \/ request.platforms = <<(<<>>)>>
  IN  (noInput \/ noPlatforms) =>
        /\ pc \in {"idle", "done"}
        /\ analyzeCalls = 0 /\ textCalls = 0 /\ invoked = 0 /\ calls = 0
        /\ pc = "done" =>
             /\ response.status = 400
             /\ ~response.success
             /\ response.keys = {"success", "error"}

\* A request with a url and an empty platforms list was answered 400.
C12_Witness ==
  /\ pc = "done"
  /\ request.url # ""
  /\ request.platforms = <<(<<>>)>>
  /\ response.status = 400

\* C13: the response's success is true exactly when it carries at least one
\* asset; when every target was attempted and none produced an asset the
\* response is HTTP 500 with success:false.
C13_SuccessIffAsset ==
  pc = "done" =>
     /\ response.success <=> (response.status = 200 /\ Len(response.assets) >= 1)
     /\ (EnteredGeneration /\ Len(assets) = 0) =>
           /\ Len(results) = BatchSize
           /\ response.status = 500
           /\ ~response.success
           /\ response.error = <<"Failed to generate any images. Please try again.">>
     /\ (EnteredGeneration /\ Len(assets) >= 1) => response.success

\* Two targets were attempted, both failed, and the answer is the 500.
C13_Witness ==
  /\ pc = "done"
  /\ results = <<"failed", "failed">>
  /\ response.status = 500

\* C14: platforms ["twitter", "favicon"], the analyzer returns brandName
\* "Acme Rockets" and both generators succeed: the response is a success with
\* exactly two assets, twitter at 1500x500 then favicon at 512x512, and its
\* brandAnalysis names "Acme Rockets".
C14_TwitterAndFavicon ==
  (/\ pc = "done"
   /\ request.platforms = <<(<<"twitter", "favicon">>)>>
   /\ analyzeResult = "returned"
   /\ brandAnalysis.brandName = "Acme Rockets"
   /\ results = <<"ok", "ok">>)
  => /\ response.status = 200
     /\ response.success
     /\ Len(response.assets) = 2
     /\ response.assets[1].platform = "twitter"
     /\ response.assets[1].dimensions = [width |-> 1500, height |-> 500]
     /\ response.assets[2].platform = "favicon"
     /\ response.assets[2].dimensions = [width |-> 512, height |-> 512]
     /\ response.brandAnalysis.brandName = "Acme Rockets"

\* The scenario ran to its response.
C14_Witness ==
  /\ pc = "done"
  /\ request.platforms = <<(<<"twitter", "favicon">>)>>
  /\ analyzeResult = "returned"
  /\ results = <<"ok", "ok">>
  /\ Len(response.assets) = 2

----------------------------------------------------------------------------
(* Properties of the prompts and of the reply handling (SpecGen) *)

\* An image-model call has been issued by the current invocation.
CallIssued == lastCall.api # "none" /\ genCalls > 0

\* The analyzer has built and sent its prompt.
PromptSent == textCalls > 0

\* C15: for a style outside the ten tags, the analyzer and each generator
\* entry point (banner, icon, logo) put the style text of "minimal" in the
\* prompt they build.
C15_UnknownStyleFallsBack ==
  style \notin {"blueprint", "brutalism", "isometric", "fluid", "collage", "explainer",
                "minimal", "gradient", "geometric", "retro"} =>
     /\ PromptSent => textPrompt.styleText = STYLE_GUIDES["minimal"]
     /\ CallIssued =>
          lastCall.styleText \in {STYLE_GUIDES["minimal"], logoStyles["minimal"],
                                  iconStyles["minimal"]}

\* C16: each of the ten tags has a non-empty entry in the analyzer's table and
\* in the generator's logo and icon tables, and for a valid tag the prompt
\* carries the tag's own entry, not the fallback.
C16_ValidTagOwnEntry ==
  /\ \A s \in {"blueprint", "brutalism", "isometric", "fluid", "collage", "explainer",
               "minimal", "gradient", "geometric", "retro"} :
       /\ s \in DOMAIN STYLE_GUIDES /\ STYLE_GUIDES[s] # ""
       /\ s \in DOMAIN logoStyles /\ logoStyles[s] # ""
       /\ s \in DOMAIN iconStyles /\ iconStyles[s] # ""
  /\ style \in Style =>
       /\ PromptSent => textPrompt.styleText = STYLE_GUIDES[style]
       /\ (CallIssued /\ gen.kind = "logo") => lastCall.styleText = logoStyles[style]
       /\ (CallIssued /\ gen.kind = "icon") => lastCall.styleText = iconStyles[style]

\* The icon generator was called with style retro and sent retro's entry.
C16_Witness ==
  /\ style = "retro"
  /\ gen.kind = "icon"
  /\ CallIssued
  /\ lastCall.styleText = iconStyles["retro"]

\* Shapes of a reply text.
FencedObject(t) ==
  \E a \in 1..Len(t) :
     /\ t[a] = "fence"
     /\ a + 2 <= Len(t)
     /\ LET o == IF t[a + 1] = "json" THEN a + 2 ELSE a + 1 IN
        /\ o + 1 <= Len(t)
        /\ t[o] = "obj"
        /\ t[o + 1] = "fence"
        /\ \A k \in 1..Len(t) : (k < a \/ k > o + 1) => t[k] = "w"

EmbeddedObject(t) ==
  /\ Len(t) > 1
  /\ \E a \in 1..Len(t) : t[a] = "obj" /\ \A k \in 1..Len(t) : k # a => t[k] = "w"

NoJson(t) ==
  \A k \in 1..Len(t) :
     /\ t[k] # "obj"
     /\ ~(t[k] = "{" /\ k < Len(t) /\ t[k + 1] = "}")

\* analyzeBrand, invoked on its own, has settled on a reply of the text model.
AnalysisSettled == pc = "settled" /\ textReply.got

\* C17 as stated: a fenced object and an object embedded in prose yield the
\* record of that object; a reply with no JSON at all, the empty reply
\* included, makes analyzeBrand fail.
C17_AsStated ==
  AnalysisSettled =>
     LET t == textReply.text IN
     /\ (FencedObject(t) \/ EmbeddedObject(t)) =>
           /\ analyzeResult = "returned"
           /\ brandAnalysis = BuildAnalysis(textReply.data)
     /\ NoJson(t) => analyzeResult = "thrown"

\* C17: a fenced object and an object embedded in prose yield the record of
\* that object; a non-empty reply with no JSON at all makes analyzeBrand fail;
\* the empty reply is read as '{}' and yields the record of defaults.
C17_ReplyHandling ==
  AnalysisSettled =>
     LET t == textReply.text IN
     /\ (FencedObject(t) \/ EmbeddedObject(t)) =>
           /\ analyzeResult = "returned"
           /\ brandAnalysis = BuildAnalysis(textReply.data)
     /\ (NoJson(t) /\ t # <<>>) => analyzeResult = "thrown"
     /\ t = <<>> =>
           /\ analyzeResult = "returned"
           /\ brandAnalysis.brandName = "Brand"
           /\ brandAnalysis.slogan = "Innovation for everyone"

\* The empty reply came back and analyzeBrand returned a record.
C17_Witness ==
  /\ AnalysisSettled
  /\ textReply.text = <<>>
  /\ analyzeResult = "returned"

\* The default a field of the returned record takes when the object does
\* not hold it.
NamedDefault(f, d) ==
  CASE f = "brandName"        -> "Brand"
    [] f = "summary"          -> "Modern digital service"
    [] f = "industry"         -> "Technology"
    [] f = "vibe"             -> "Modern, Professional"
    [] f = "slogan"           -> "Innovation for everyone"
    [] f = "cta"              -> "Get Started"
    [] f = "title"            -> IF d["brandName"] # <<>> /\ d["brandName"][1] # ""
                                   THEN d["brandName"][1] ELSE "Brand"
    [] f = "brandColors"      -> <<"#3b82f6", "#ffffff", "#000000">>
    [] f = "iconConcept"      -> "abstract symbol"
    [] f = "visualPrompt"     -> ""
    [] f = "twitterBio"       -> ""
    [] f = "linkedinHeadline" -> ""

\* C18: when the reply parses to a JSON object analyzeBrand succeeds whatever
\* fields are absent; every absent field of the returned record holds its
\* default and every present non-empty field holds the parsed value.
C18_DefaultsOnAbsence ==
  AnalysisSettled =>
     LET jsonStr == ExtractJson(ReplyText(textReply.text))
         d == IF jsonStr = <<"obj">> THEN textReply.data ELSE [f \in Fields |-> <<>>]
     IN  (jsonStr = <<"obj">> \/ jsonStr = <<"{", "}">>) =>
           /\ analyzeResult = "returned"
           /\ \A f \in Fields :
                /\ d[f] = <<>> => brandAnalysis[f] = NamedDefault(f, d)
                /\ (d[f] # <<>> /\ d[f][1] # EmptyValue(f)) => brandAnalysis[f] = d[f][1]

\* An object without brandName was replied: the record names 'Brand' and
\* keeps the parsed slogan.
C18_Witness ==
  /\ AnalysisSettled
  /\ textReply.text = <<"obj">>
  /\ textReply.data["brandName"] = <<>>
  /\ analyzeResult = "returned"
  /\ brandAnalysis.brandName = "Brand"
  /\ brandAnalysis.slogan = "Orbit on schedule"

\* C19: every image-model call, from every entry point and on every attempt,
\* sends a prompt with the timestamp token appended.
C19_EveryCallSeeded == CallIssued => lastCall.seed

----------------------------------------------------------------------------
(* Properties of the orchestrator, continued (Spec) *)

\* C20: generateBannerWithImagen is invoked only with a platform among
\* twitter, linkedin, youtube, facebook and og.
C20_BannerOnlyForPlatforms ==
  \A k \in 1..Len(invokedLog) :
     invokedLog[k].kind = "banner" =>
        invokedLog[k].platform \in {"twitter", "linkedin", "youtube", "facebook", "og"}

----------------------------------------------------------------------------
(* Properties of the orchestrator: assets, credential, phases, errors (Spec) *)

\* The request's platforms list, once validation has been passed.
PlatformList == request.platforms[1]

\* C21: every asset was produced by a generator invocation of this request
\* that returned an image for the asset's platform: the assets are, in order,
\* the targets whose invocation returned, each holding the data of one of the
\* request's image-model calls; a failed target has no asset.
C21_NoPlaceholder ==
  EnteredGeneration =>
     /\ Len(assets) = OkCount(Len(results))
     /\ \A k \in 1..Len(results) :
          results[k] = "ok" =>
             LET a == assets[OkCount(k)] IN
             /\ a.platform = invokedLog[k].platform
             /\ a.base64[1] = "data:image/png;base64"
             /\ a.base64[2] \in 1..calls
     /\ \A j, k \in 1..Len(assets) : j # k => assets[j].base64 # assets[k].base64
     /\ pc = "done" => response.assets = assets \/ response.assets = <<>>

\* The first target failed, the second returned: one asset, the second's.
C21_Witness ==
  /\ pc = "done"
  /\ results = <<"failed", "ok">>
  /\ Len(response.assets) = 1
  /\ response.assets[1].platform = invokedLog[2].platform

\* C22: without the credential no text-model or image-model call is issued,
\* every request that passes validation gets a failure response, and the
\* orchestrator does not go on to the remaining targets after the first
\* generator has failed on the missing credential.
C22_MissingCredentialFatal ==
  ~hasKey =>
     /\ textCalls = 0
     /\ calls = 0
     /\ (pc = "done" /\ PassesValidation) => ~response.success
     /\ invoked <= 1

\* The response's state is written once and the handler then stays put.
OneResponse ==
  /\ response # NoResponse => response' = response
  /\ pc = "done" => pc' = "done"

\* The phases never go backwards: Idle, Analyzing, Generating(1), ...,
\* Generating(N), Done.
PhaseRank(p, k) ==
  CASE p = "idle"      -> 0
    [] p = "analyzing" -> 1
    [] p \in {"stagger", "gen_call", "backoff"} -> 1 + k
    [] p = "done"      -> 2 + MaxPlatforms + 1

\* C24: a request moves through Idle, Analyzing (skipped when the provided
\* analysis is used), Generating(i) for i in list order, Done; an image-model
\* call is issued only with the brand data at hand and before the response,
\* and the response is sent exactly once.
C24_PhaseOrder ==
  [][/\ PhaseRank(pc, i) <= PhaseRank(pc', i')
     /\ OneResponse
     /\ (pc = "idle" /\ pc' \notin {"idle", "done", "analyzing"}) =>
           (CarriesNamedAnalysis /\ brandAnalysis' = request.brandAnalysis[1])
     /\ pc = "analyzing" => pc' \in {"analyzing", "done", "stagger"}
     /\ (pc \in {"stagger", "gen_call", "backoff"} /\ pc' # "done") =>
           (i' = i \/ (i' = i + 1 /\ pc' = "stagger"))
     /\ calls' > calls =>
           /\ pc' = "gen_call"
           /\ response' = NoResponse
           /\ (analyzeResult = "returned" \/ CarriesNamedAnalysis)
           /\ gen'.brand = brandAnalysis
           /\ gen'.brand.brandName # ""
           /\ gen'.platform = invokedLog'[i].platform
     /\ (pc # "done" /\ pc' = "done") => (response = NoResponse /\ response' # NoResponse)
    ]_vars

\* Analysis returned, two targets were generated, the response was sent.
C24_Witness ==
  /\ pc = "done"
  /\ analyzeResult = "returned"
  /\ i = 2
  /\ calls >= 2
  /\ response.status = 200

\* C25: the error string of a failure response is one of the handler's fixed
\* messages; in particular it is not the message of a thrown internal error.
C25_FixedErrorStrings ==
  (pc = "done" /\ ~response.success) =>
     response.error \in {<<"URL, description, or brandAnalysis required">>,
                         <<"At least one platform required">>,
                         <<"Failed to generate any images. Please try again.">>,
                         <<"Failed to analyze brand. Please try again.">>,
                         <<"Generation failed. Please try again.">>}

\* C26: every backoff wait is followed by another attempt: no wait is begun
\* once the third attempt has failed.
C26_NoWaitAfterLastAttempt == pc = "backoff" => genCalls < 3

\* C28: the banner assets follow the order of the platforms list, the favicon
\* asset comes last, and the asset list only grows by appending.
C28_AssetOrder ==
  [][/\ (assets' = assets \/ \E a \in {Asset(gen, genResult'.image)} : assets' = Append(assets, a))
     /\ pc' = "done" /\ response'.success =>
          LET as == response'.assets
              ps == PlatformList
          IN  /\ \A k \in 1..Len(as) : as[k].platform = "favicon" => k = Len(as)
              /\ \E f \in [1..Len(as) -> 1..(Len(ps) + 1)] :
                    /\ \A j, k \in 1..Len(as) : j < k => f[j] < f[k]
                    /\ \A k \in 1..Len(as) :
                          IF as[k].platform = "favicon"
                            THEN TRUE
                            ELSE f[k] <= Len(ps) /\ ps[f[k]] = as[k].platform
    ]_vars

\* linkedin then twitter then the favicon were asked for and all three came.
C28_Witness ==
  /\ pc = "done"
  /\ request.platforms = <<(<<"linkedin", "twitter">>)>>
  /\ Len(response.assets) = 3
  /\ response.assets[1].platform = "linkedin"
  /\ response.assets[3].platform = "favicon"

\* C29: the icon generator is invoked once if platforms holds 'favicon' or
\* includeFavicon is set, and not at all otherwise; a response carries at most
\* one favicon asset.
C29_FaviconAtMostOnce ==
  LET icons == {k \in 1..Len(invokedLog) : invokedLog[k].kind = "icon"}
      wanted == (\E k \in 1..Len(PlatformList) : PlatformList[k] = "favicon")
                  \/ request.includeFavicon
  IN  EnteredGeneration =>
        /\ Cardinality(icons) <= 1
        /\ ~wanted => icons = {}
        /\ \A k \in 1..Len(invokedLog) : invokedLog[k].platform = "favicon" => k \in icons
        /\ pc = "done" =>
             /\ wanted => Cardinality(icons) = 1
             /\ Cardinality({k \in 1..Len(response.assets) :
                               response.assets[k].platform = "favicon"}) <= 1

\* 'favicon' twice in platforms and includeFavicon set: one icon invocation.
C29_Witness ==
  /\ pc = "done"
  /\ request.platforms = <<(<<"favicon", "favicon">>)>>
  /\ request.includeFavicon
  /\ Len(invokedLog) = 1
  /\ Len(response.assets) = 1

\* C30: analyzeBrand is invoked with a non-empty input, and with the kind
\* 'url' exactly when url is non-empty.
C30_AnalyzerInputNonEmpty ==
  analyzeCalls > 0 =>
     /\ analyzeArgs.input # ""
     /\ analyzeArgs.inputType = "url" <=> request.url # ""
     /\ analyzeArgs.inputType \in {"url", "text"}

----------------------------------------------------------------------------
(* Termination of a request (SpecLive) *)

\* C27: provided every external call returns or fails, the request's response
\* is eventually sent, and no more than three image-model calls per target
\* (banner entries of platforms, plus one for the favicon) are ever issued.
C27_Terminates ==
  /\ <>(pc = "done" /\ response # NoResponse)
  /\ [](PassesValidation => calls <= 3 * BatchSize)
  /\ [](~PassesValidation => calls = 0)

\* Two targets took three image-model calls each before the response.
C27_Witness ==
  /\ pc = "done"
  /\ PassesValidation
  /\ BatchSize = 2
  /\ calls = 6

----------------------------------------------------------------------------
(* Two requests handled at the same time (SpecPair) *)

\* The local state of the handler of request r.
Handler(r) == IF cur = r THEN Locals ELSE other

\* The generator invocations a body calls for, in program order.
InvocationsOf(req) ==
  LET ps == req.platforms[1]
      banners == SelectSeq(ps, LAMBDA p : p # "favicon")
      fav == IF (\E k \in 1..Len(ps) : ps[k] = "favicon") \/ req.includeFavicon
               THEN <<[kind |-> "icon", platform |-> "favicon"]>>
               ELSE <<>>
  IN  [k \in 1..Len(banners) |-> [kind |-> "banner", platform |-> banners[k]]] \o fav

\* The response of a handler is the one its own body and the outcomes of
\* its own external calls (the text model's reply, the result of each of its
\* generator invocations) determine.
OwnResponse(L) ==
  LET req == L.request
      inv == InvocationsOf(req)
      named == req.brandAnalysis # <<>> /\ req.brandAnalysis[1].brandName # ""
      ok == {k \in 1..Len(L.results) : L.results[k] = "ok"}
      rank(k) == Cardinality({j \in ok : j <= k})
      r == L.response
  IN  IF L.analyzeResult = "thrown"
        THEN /\ r.status = 500 /\ ~r.success /\ r.assets = <<>>
             /\ r.error = IF hasKey THEN <<"Failed to analyze brand. Please try again.">>
                                    ELSE <<"GEMINI_API_KEY", "not", "configured">>
             /\ L.invokedLog = <<>>
        ELSE /\ L.invokedLog = inv
             /\ Len(L.results) = Len(inv)
             /\ L.calls <= 3 * Len(inv)
             /\ IF named
                  THEN L.analyzeCalls = 0 /\ L.brandAnalysis = req.brandAnalysis[1]
                  ELSE /\ L.analyzeCalls = 1
                       /\ L.textReply.got
                       /\ L.brandAnalysis =
                            BuildAnalysis(ParsedData(ExtractJson(ReplyText(L.textReply.text)),
                                                     L.textReply.data))
             /\ IF ok = {}
                  THEN /\ r.status = 500 /\ ~r.success /\ r.assets = <<>>
                       /\ r.error = <<"Failed to generate any images. Please try again.">>
                  ELSE /\ r.status = 200 /\ r.success
                       /\ r.brandAnalysis = L.brandAnalysis
                       /\ Len(r.assets) = Cardinality(ok)
                       /\ \A k \in ok :
                            /\ r.assets[rank(k)].platform = inv[k].platform
                            /\ r.assets[rank(k)].dimensions =
                                 (IF inv[k].kind = "icon" THEN [width |-> 512, height |-> 512]
                                                          ELSE PLATFORM_DIMENSIONS[inv[k].platform])
                            /\ r.assets[rank(k)].base64[2] \in 1..L.calls

\* C23: two requests handled at the same time, under any interleaving of
\* their steps: the assets, brandAnalysis and status of each response depend
\* only on that request's body and on the outcomes of its own external calls.
C23_Independent ==
  \A r \in {1, 2} : Handler(r).pc = "done" => OwnResponse(Handler(r))

\* Both requests were answered with a success, the second one first, the
\* first one having been suspended in the middle of its generation.
C23_Witness ==
  /\ pc = "done" /\ other.pc = "done"
  /\ cur = 1
  /\ request # other.request
  /\ response.status = 200 /\ other.response.status = 200
  /\ Len(response.assets) + Len(other.response.assets) = 3

============================================================================
